---- MODULE Spec2Model ----
(***************************************************************************)
(* Model of data_analyzer.py: read_gravity_batch, the decoder of one       *)
(* gzip-compressed batch of particle frames, and analyze_data_range, the   *)
(* fold of per-axis extremes over the batch files 0..11.                   *)
(*                                                                         *)
(* A decompressed stream is a sequence of bytes (0..255).  A float32 is    *)
(* kept as its IEEE-754 fields [sign, exp, man], which is what unpacking   *)
(* four little-endian bytes yields bit for bit.                            *)
(***************************************************************************)
EXTENDS Integers, Sequences, FiniteSets, TLC

VARIABLES
    stream,           \* the decompressed bytes the gzip container yields
    fault,            \* TRUE: the container is damaged after those bytes
    handle,           \* the gzip file object: "none", "open", "closed"
    pos,              \* read position of the file object
    pc,               \* position of read_gravity_batch
    exc,              \* exception that left the call, "none" if none
    header_data,
    frames_per_file,
    num_particles,
    remaining_data,
    expected_bytes,
    frame_idx,
    particle_idx,
    data,
    frame_positions,
    frames,
    diag,             \* the lines printed, as events
    files,            \* analyze_data_range: batch index -> stream or Missing
    batch_idx,
    min_coords,
    max_coords,
    max_range,
    suggested_scale,
    apc,              \* position of analyze_data_range
    aexc

rvars == <<stream, fault, handle, pos, pc, exc, header_data, frames_per_file,
           num_particles, remaining_data, expected_bytes, frame_idx,
           particle_idx, data, frame_positions, frames, diag>>
avars == <<files, batch_idx, min_coords, max_coords, max_range,
           suggested_scale, apc, aexc>>
vars == <<rvars, avars>>

----------------------------------------------------------------------------
(* Bounds of the input space.                                              *)
MaxFrames == 3        \* low byte of the declared frame count: 0..MaxFrames
MaxParticles == 3     \* low byte of the declared particle count
MaxParticlesHi == 1   \* second byte of the declared particle count
MaxPayload == 74      \* payload bytes after the header: 0..MaxPayload
MaxSeed == 1          \* payload contents: one byte pattern per seed
MaxFiles == 2         \* analyze_data_range: batch files that exist

(* Program constants.                                                      *)
HeaderSize == 8
RecordSize == 12
SampleCount == 5
NumBatches == 12
TargetExtent == 10

Min(a, b) == IF a < b THEN a ELSE b

----------------------------------------------------------------------------
(* The file object.                                                        *)

\* f.read(n) at position p: the bytes from p, at most n of them, never past
\* the end of the stream; the position advances by what was returned.
ReadUnclamped(s, p, n) ==
    [bytes |-> SubSeq(s, p + 1, Min(p + n, Len(s))), pos |-> p + n]

Read(s, p, n) ==
    [bytes |-> SubSeq(s, p + 1, Min(p + n, Len(s))), pos |-> Min(p + n, Len(s))]

\* f.read(): everything from p to the end.
ReadAll(s, p) == [bytes |-> SubSeq(s, p + 1, Len(s)), pos |-> Len(s)]

\* A read that has to go past the last byte of a damaged container meets the
\* damage instead of end-of-file and raises.
ReadRaises(s, flt, p, n) == flt /\ p + n > Len(s)

\* Leaving the `with` block, by return or by exception, closes the handle.
WithExitLeak(h) == h

WithExit(h) == "closed"

----------------------------------------------------------------------------
(* struct.unpack                                                           *)

\* '<I': four bytes, least significant first.
Unpack_I(b) == b[1] + 256 * b[2] + 65536 * b[3] + 16777216 * b[4]

\* '<f': four bytes, least significant first, as IEEE-754 binary32 fields.
Unpack_f(b) ==
    [sign |-> b[4] \div 128,
     exp  |-> (b[4] % 128) * 2 + b[3] \div 128,
     man  |-> (b[3] % 128) * 65536 + b[2] * 256 + b[1]]

\* '<fff': x, y, z.
Unpack_fff(b) ==
    <<Unpack_f(SubSeq(b, 1, 4)), Unpack_f(SubSeq(b, 5, 8)), Unpack_f(SubSeq(b, 9, 12))>>

----------------------------------------------------------------------------
(* Decisions of read_gravity_batch.                                        *)

HeaderShortEmptyOnly(h) == Len(h) < 1

HeaderShort(h) == Len(h) < HeaderSize

ExpectedBytes(fpf, np) == fpf * np * RecordSize

SizeMismatchLongerOnly(len, expected) == len > expected

SizeMismatch(len, expected) == len # expected

CanCorrectAlways(fpf) == TRUE

CanCorrect(fpf) == fpf > 0

ActualParticlesCeil(len, fpf) ==
    (len + fpf * RecordSize - 1) \div (fpf * RecordSize)

ActualParticles(len, fpf) == len \div (fpf * RecordSize)

MoreFramesOffByOne(idx, fpf) == idx + 1 < fpf

MoreFrames(idx, fpf) == idx < fpf

MoreParticles(idx, np) == idx < np

Incomplete(d) == Len(d) < RecordSize

\* f.seek(offset): the position becomes the offset.
SeekOmitted(p, offset) == p

Seek(p, offset) == offset

Ev(name, a, b) == [ev |-> name, a |-> a, b |-> b]

----------------------------------------------------------------------------
(* Inputs: a header whose two counts are small, followed by a payload of   *)
(* any length up to MaxPayload whose bytes differ from record to record,   *)
(* or any prefix of that, with or without damage behind it.                *)

PayloadByte(seed, k) == (101 * seed + 37 * k) % 256

StreamByte(f0, n0, n1, seed, k) ==
    CASE k = 1 -> f0
      [] k = 5 -> n0
      [] k = 6 -> n1
      [] k \in {2, 3, 4, 7, 8} -> 0
      [] OTHER -> PayloadByte(seed, k - HeaderSize)

Missing == <<-1>>

AnalyzeIdle ==
    /\ files = [i \in 0..(NumBatches - 1) |-> Missing]
    /\ batch_idx = 0
    /\ min_coords = <<>>
    /\ max_coords = <<>>
    /\ max_range = [k |-> "fin", v |-> 0]
    /\ suggested_scale = [num |-> 0, den |-> 0]
    /\ apc = "idle"
    /\ aexc = "none"

ReaderLocals ==
    /\ handle = "none"
    /\ pos = 0
    /\ exc = "none"
    /\ header_data = <<>>
    /\ frames_per_file = 0
    /\ num_particles = 0
    /\ remaining_data = <<>>
    /\ expected_bytes = 0
    /\ frame_idx = 0
    /\ particle_idx = 0
    /\ data = <<>>
    /\ frame_positions = <<>>
    /\ frames = <<>>
    /\ diag = <<>>

Init ==
    /\ \E f0 \in 0..MaxFrames, n0 \in 0..MaxParticles, n1 \in 0..MaxParticlesHi,
          seed \in 0..MaxSeed, len \in 0..(HeaderSize + MaxPayload) :
          stream = [k \in 1..len |-> StreamByte(f0, n0, n1, seed, k)]
    /\ fault \in BOOLEAN
    /\ pc = "start"
    /\ ReaderLocals
    /\ AnalyzeIdle

----------------------------------------------------------------------------
(* read_gravity_batch, one action per step.                                *)

Raise(e) ==
    /\ pc' = "raised"
    /\ exc' = e
    /\ handle' = WithExit(handle)

\* lines 12-16
Open ==
    /\ pc = "start"
    /\ frames' = <<>>
    /\ diag' = Append(diag, Ev("reading", 0, 0))
    /\ handle' = "open"
    /\ pos' = 0
    /\ pc' = "read_header"
    /\ UNCHANGED <<stream, fault, exc, header_data, frames_per_file, num_particles,
                   remaining_data, expected_bytes, frame_idx, particle_idx, data,
                   frame_positions>>

\* lines 18-21
ReadHeader ==
    /\ pc = "read_header"
    /\ IF ReadRaises(stream, fault, pos, HeaderSize)
       THEN /\ Raise("EOFError")
            /\ UNCHANGED <<pos, header_data, diag>>
       ELSE LET r == Read(stream, pos, HeaderSize) IN
            /\ header_data' = r.bytes
            /\ pos' = r.pos
            /\ IF HeaderShort(r.bytes)
               THEN /\ diag' = Append(diag, Ev("header_error", Len(r.bytes), 0))
                    /\ handle' = WithExit(handle)
                    /\ pc' = "done"
               ELSE /\ pc' = "parse_header"
                    /\ UNCHANGED <<diag, handle>>
            /\ UNCHANGED exc
    /\ UNCHANGED <<stream, fault, frames_per_file, num_particles, remaining_data,
                   expected_bytes, frame_idx, particle_idx, data, frame_positions,
                   frames>>

\* lines 23-27
ParseHeader ==
    /\ pc = "parse_header"
    /\ LET lo == SubSeq(header_data, 1, 4)
           hi == SubSeq(header_data, 5, 8)
       IN IF Len(lo) # 4 \/ Len(hi) # 4
          THEN /\ Raise("struct.error")
               /\ UNCHANGED <<frames_per_file, num_particles, diag>>
          ELSE /\ frames_per_file' = Unpack_I(lo)
               /\ num_particles' = Unpack_I(hi)
               /\ diag' = diag \o <<Ev("frames_per_file", Unpack_I(lo), 0),
                                    Ev("particles", Unpack_I(hi), 0)>>
               /\ pc' = "read_rest"
               /\ UNCHANGED <<exc, handle>>
    /\ UNCHANGED <<stream, fault, pos, header_data, remaining_data, expected_bytes,
                   frame_idx, particle_idx, data, frame_positions, frames>>

\* lines 30-33
ReadRest ==
    /\ pc = "read_rest"
    /\ IF fault
       THEN /\ Raise("EOFError")
            /\ UNCHANGED <<pos, remaining_data, expected_bytes, diag>>
       ELSE LET r == ReadAll(stream, pos)
                e == ExpectedBytes(frames_per_file, num_particles)
            IN /\ remaining_data' = r.bytes
               /\ pos' = r.pos
               /\ expected_bytes' = e
               /\ diag' = diag \o <<Ev("expected", e, 0), Ev("actual", Len(r.bytes), 0)>>
               /\ pc' = "check_size"
               /\ UNCHANGED <<exc, handle>>
    /\ UNCHANGED <<stream, fault, header_data, frames_per_file, num_particles,
                   frame_idx, particle_idx, data, frame_positions, frames>>

\* lines 35-41
CheckSize ==
    /\ pc = "check_size"
    /\ IF SizeMismatch(Len(remaining_data), expected_bytes)
       THEN IF CanCorrect(frames_per_file)
            THEN IF frames_per_file * RecordSize = 0
                 THEN /\ Raise("ZeroDivisionError")
                      /\ diag' = Append(diag, Ev("mismatch", 0, 0))
                      /\ UNCHANGED num_particles
                 ELSE LET actual_particles ==
                              ActualParticles(Len(remaining_data), frames_per_file)
                      IN /\ num_particles' = actual_particles
                         /\ diag' = diag \o <<Ev("mismatch", 0, 0),
                                              Ev("calculated", actual_particles, 0)>>
                         /\ pc' = "seek"
                         /\ UNCHANGED <<exc, handle>>
            ELSE /\ diag' = Append(diag, Ev("mismatch", 0, 0))
                 /\ pc' = "seek"
                 /\ UNCHANGED <<num_particles, exc, handle>>
       ELSE /\ pc' = "seek"
            /\ UNCHANGED <<num_particles, diag, exc, handle>>
    /\ UNCHANGED <<stream, fault, pos, header_data, frames_per_file, remaining_data,
                   expected_bytes, frame_idx, particle_idx, data, frame_positions,
                   frames>>

\* line 44
SeekPayload ==
    /\ pc = "seek"
    /\ pos' = Seek(pos, HeaderSize)
    /\ frame_idx' = 0
    /\ pc' = "frame_loop"
    /\ UNCHANGED <<stream, fault, handle, exc, header_data, frames_per_file,
                   num_particles, remaining_data, expected_bytes, particle_idx, data,
                   frame_positions, frames, diag>>

\* lines 47-48, and the return of line 65 once the range is exhausted
FrameLoop ==
    /\ pc = "frame_loop"
    /\ IF MoreFrames(frame_idx, frames_per_file)
       THEN /\ frame_positions' = <<>>
            /\ particle_idx' = 0
            /\ pc' = "particle_loop"
            /\ UNCHANGED handle
       ELSE /\ handle' = WithExit(handle)
            /\ pc' = "done"
            /\ UNCHANGED <<frame_positions, particle_idx>>
    /\ UNCHANGED <<stream, fault, pos, exc, header_data, frames_per_file,
                   num_particles, remaining_data, expected_bytes, frame_idx, data,
                   frames, diag>>

\* lines 49-50
ReadParticle ==
    /\ pc = "particle_loop"
    /\ IF MoreParticles(particle_idx, num_particles)
       THEN LET r == Read(stream, pos, RecordSize) IN
            /\ data' = r.bytes
            /\ pos' = r.pos
            /\ pc' = "check_data"
       ELSE /\ pc' = "append_frame"
            /\ UNCHANGED <<data, pos>>
    /\ UNCHANGED <<stream, fault, handle, exc, header_data, frames_per_file,
                   num_particles, remaining_data, expected_bytes, frame_idx,
                   particle_idx, frame_positions, frames, diag>>

\* lines 51-56
CheckData ==
    /\ pc = "check_data"
    /\ IF Incomplete(data)
       THEN /\ diag' = Append(diag, Ev("incomplete", frame_idx, particle_idx))
            /\ pc' = "append_frame"
            /\ UNCHANGED <<frame_positions, particle_idx, exc, handle>>
       ELSE IF Len(data) # RecordSize
            THEN /\ Raise("struct.error")
                 /\ UNCHANGED <<frame_positions, particle_idx, diag>>
            ELSE /\ frame_positions' = Append(frame_positions, Unpack_fff(data))
                 /\ particle_idx' = particle_idx + 1
                 /\ pc' = "particle_loop"
                 /\ UNCHANGED <<diag, exc, handle>>
    /\ UNCHANGED <<stream, fault, pos, header_data, frames_per_file, num_particles,
                   remaining_data, expected_bytes, frame_idx, data, frames>>

\* lines 57-63
AppendFrame ==
    /\ pc = "append_frame"
    /\ frames' = Append(frames, frame_positions)
    /\ diag' = IF frame_idx = 0 /\ Len(frame_positions) > 0
               THEN Append(diag, Ev("sample", Min(SampleCount, Len(frame_positions)), 0))
               ELSE diag
    /\ frame_idx' = frame_idx + 1
    /\ pc' = "frame_loop"
    /\ UNCHANGED <<stream, fault, handle, pos, exc, header_data, frames_per_file,
                   num_particles, remaining_data, expected_bytes, particle_idx, data,
                   frame_positions>>

----------------------------------------------------------------------------
(* read_gravity_batch as a function of an undamaged stream: the same loops, *)
(* run to completion, for analyze_data_range to call.                       *)

RECURSIVE ReadFramePositions(_, _, _, _, _)
ReadFramePositions(s, p, np, idx, acc) ==
    IF ~MoreParticles(idx, np)
    THEN [positions |-> acc, pos |-> p]
    ELSE LET r == Read(s, p, RecordSize) IN
         IF Incomplete(r.bytes)
         THEN [positions |-> acc, pos |-> r.pos]
         ELSE ReadFramePositions(s, r.pos, np, idx + 1,
                                 Append(acc, Unpack_fff(r.bytes)))

RECURSIVE ReadFrames(_, _, _, _, _, _)
ReadFrames(s, p, fpf, np, idx, acc) ==
    IF ~MoreFrames(idx, fpf)
    THEN acc
    ELSE LET fr == ReadFramePositions(s, p, np, 0, <<>>) IN
         ReadFrames(s, fr.pos, fpf, np, idx + 1, Append(acc, fr.positions))

DecodeBatch(s) ==
    LET h == Read(s, 0, HeaderSize) IN
    IF HeaderShort(h.bytes)
    THEN <<>>
    ELSE LET fpf == Unpack_I(SubSeq(h.bytes, 1, 4))
             np == Unpack_I(SubSeq(h.bytes, 5, 8))
             rest == ReadAll(s, h.pos)
             n == IF SizeMismatch(Len(rest.bytes), ExpectedBytes(fpf, np))
                     /\ CanCorrect(fpf)
                  THEN ActualParticles(Len(rest.bytes), fpf)
                  ELSE np
         IN ReadFrames(s, Seek(rest.pos, HeaderSize), fpf, n, 0, <<>>)

----------------------------------------------------------------------------
(* Float arithmetic of analyze_data_range.  A value is finite (an integer, *)
(* which is all the analysed batches hold) or an infinity.                 *)

Fin(v) == [k |-> "fin", v |-> v]
PosInf == [k |-> "inf", v |-> 1]
NegInf == [k |-> "inf", v |-> -1]
NaN == [k |-> "nan", v |-> 0]

RECURSIVE Pow2(_)
Pow2(n) == IF n = 0 THEN 1 ELSE 2 * Pow2(n - 1)

\* The number a float32 with these fields stands for.
FloatValue(f) ==
    LET sgn == IF f.sign = 1 THEN -1 ELSE 1 IN
    CASE f.exp = 0 /\ f.man = 0 -> Fin(0)
      [] f.exp = 255 /\ f.man = 0 -> [k |-> "inf", v |-> sgn]
      [] f.exp = 255 /\ f.man # 0 -> NaN
      [] f.exp >= 127 /\ f.exp <= 150 ->
            Fin(sgn * ((Pow2(23) + f.man) \div Pow2(150 - f.exp)))

\* a < b on floats; any comparison with a NaN is false.
FLess(a, b) ==
    CASE a.k = "nan" \/ b.k = "nan" -> FALSE
      [] a.k = "fin" /\ b.k = "fin" -> a.v < b.v
      [] a.k = "inf" /\ b.k = "inf" -> a.v < b.v
      [] a.k = "inf" -> a.v < 0
      [] OTHER -> b.v > 0

\* min(a, b) and max(a, b) of Python: the first argument unless the second
\* is strictly smaller (larger).
PyMin(a, b) == IF FLess(b, a) THEN b ELSE a
PyMax(a, b) == IF FLess(a, b) THEN b ELSE a

\* a - b
FSub(a, b) ==
    CASE a.k = "nan" \/ b.k = "nan" -> NaN
      [] a.k = "fin" /\ b.k = "fin" -> Fin(a.v - b.v)
      [] a.k = "inf" /\ b.k = "inf" -> IF a.v = b.v THEN NaN ELSE a
      [] a.k = "inf" -> a
      [] OTHER -> [k |-> "inf", v |-> -b.v]

\* a / b for a finite, positive a: a ratio, a signed zero when b is infinite;
\* Python raises ZeroDivisionError when b is zero.
DivRaises(b) == b.k = "fin" /\ b.v = 0

FDiv(a, b) ==
    CASE b.k = "nan" -> [num |-> 0, den |-> 0]
      [] b.k = "inf" -> [num |-> 0, den |-> b.v]
      [] OTHER -> [num |-> a, den |-> b.v]

\* lines 117-123 for one position, and for a frame, and for a batch
FoldPosition(acc, p) ==
    [min |-> [i \in 1..3 |-> PyMin(acc.min[i], FloatValue(p[i]))],
     max |-> [i \in 1..3 |-> PyMax(acc.max[i], FloatValue(p[i]))]]

RECURSIVE FoldFrame(_, _, _)
FoldFrame(acc, frame_data, i) ==
    IF i > Len(frame_data) THEN acc
    ELSE FoldFrame(FoldPosition(acc, frame_data[i]), frame_data, i + 1)

RECURSIVE FoldFrames(_, _, _)
FoldFrames(acc, fs, i) ==
    IF i > Len(fs) THEN acc
    ELSE FoldFrames(FoldFrame(acc, fs[i], 1), fs, i + 1)

\* line 131: max(max_coords[i] - min_coords[i] for i in range(3))
MaxRange(mins, maxs) ==
    PyMax(PyMax(FSub(maxs[1], mins[1]), FSub(maxs[2], mins[2])),
          FSub(maxs[3], mins[3]))

----------------------------------------------------------------------------
(* Batch files given to analyze_data_range: at most MaxFiles of the twelve *)
(* indices exist, each holding one of a few small batches of integral      *)
(* floats.                                                                 *)

F_0 == <<0, 0, 0, 0>>          \* 0.0
F_2 == <<0, 0, 0, 64>>         \* 2.0
F_m2 == <<0, 0, 0, 192>>       \* -2.0
F_5 == <<0, 0, 160, 64>>       \* 5.0
F_m5 == <<0, 0, 160, 192>>     \* -5.0
F_20 == <<0, 0, 160, 65>>      \* 20.0

BatchHeader(fpf, np) == <<fpf, 0, 0, 0, np, 0, 0, 0>>

\* one frame, two particles: (-5, 0, -2) and (5, 20, 2)
StreamBox == BatchHeader(1, 2) \o F_m5 \o F_0 \o F_m2 \o F_5 \o F_20 \o F_2
\* one frame, one particle at the origin
StreamPoint == BatchHeader(1, 1) \o F_0 \o F_0 \o F_0
\* two frames of one particle: (5, 0, 2) then (5, 20, 2)
StreamMove == BatchHeader(2, 1) \o F_5 \o F_0 \o F_2 \o F_5 \o F_20 \o F_2
\* no frames
StreamEmpty == BatchHeader(0, 0)

AnalyzeStreams == {StreamBox, StreamPoint, StreamMove, StreamEmpty}

ReaderIdle ==
    /\ stream = <<>>
    /\ fault = FALSE
    /\ pc = "idle"
    /\ ReaderLocals

InitAnalyze ==
    /\ \E S \in SUBSET (0..(NumBatches - 1)) :
          /\ Cardinality(S) <= MaxFiles
          /\ \E g \in [S -> AnalyzeStreams] :
                files = [i \in 0..(NumBatches - 1) |->
                            IF i \in S THEN g[i] ELSE Missing]
    /\ batch_idx = 0
    /\ min_coords = <<>>
    /\ max_coords = <<>>
    /\ max_range = Fin(0)
    /\ suggested_scale = [num |-> 0, den |-> 0]
    /\ apc = "start"
    /\ aexc = "none"
    /\ ReaderIdle

----------------------------------------------------------------------------
(* analyze_data_range                                                      *)

\* lines 105-106
AnalyzeStart ==
    /\ apc = "start"
    /\ min_coords' = <<PosInf, PosInf, PosInf>>
    /\ max_coords' = <<NegInf, NegInf, NegInf>>
    /\ batch_idx' = 0
    /\ apc' = "batch_loop"
    /\ UNCHANGED <<files, max_range, suggested_scale, aexc>>

\* lines 108-111: a batch file that does not exist
SkipMissing ==
    /\ apc = "batch_loop"
    /\ batch_idx < NumBatches
    /\ files[batch_idx] = Missing
    /\ batch_idx' = batch_idx + 1
    /\ UNCHANGED <<files, min_coords, max_coords, max_range, suggested_scale,
                   apc, aexc>>

\* lines 108-123: a batch file that exists
AnalyzeBatch ==
    /\ apc = "batch_loop"
    /\ batch_idx < NumBatches
    /\ files[batch_idx] # Missing
    /\ LET acc == FoldFrames([min |-> min_coords, max |-> max_coords],
                             DecodeBatch(files[batch_idx]), 1)
       IN /\ min_coords' = acc.min
          /\ max_coords' = acc.max
    /\ batch_idx' = batch_idx + 1
    /\ UNCHANGED <<files, max_range, suggested_scale, apc, aexc>>

\* lines 125-135
SuggestScale ==
    /\ apc = "batch_loop"
    /\ batch_idx >= NumBatches
    /\ max_range' = MaxRange(min_coords, max_coords)
    /\ IF DivRaises(max_range')
       THEN /\ aexc' = "ZeroDivisionError"
            /\ apc' = "raised"
            /\ UNCHANGED suggested_scale
       ELSE /\ suggested_scale' = FDiv(TargetExtent, max_range')
            /\ apc' = "done"
            /\ UNCHANGED aexc
    /\ UNCHANGED <<files, batch_idx, min_coords, max_coords>>

NextAnalyze ==
    \/ (AnalyzeStart /\ UNCHANGED rvars)
    \/ (SkipMissing /\ UNCHANGED rvars)
    \/ (AnalyzeBatch /\ UNCHANGED rvars)
    \/ (SuggestScale /\ UNCHANGED rvars)

SpecAnalyze == InitAnalyze /\ [][NextAnalyze]_vars

Next ==
    \/ (Open /\ UNCHANGED avars)
    \/ (ReadHeader /\ UNCHANGED avars)
    \/ (ParseHeader /\ UNCHANGED avars)
    \/ (ReadRest /\ UNCHANGED avars)
    \/ (CheckSize /\ UNCHANGED avars)
    \/ (SeekPayload /\ UNCHANGED avars)
    \/ (FrameLoop /\ UNCHANGED avars)
    \/ (ReadParticle /\ UNCHANGED avars)
    \/ (CheckData /\ UNCHANGED avars)
    \/ (AppendFrame /\ UNCHANGED avars)

Spec == Init /\ [][Next]_vars

----------------------------------------------------------------------------
(* What the input declares, read off the stream itself.                    *)

HdrFrames == stream[1] + 256 * stream[2] + 65536 * stream[3] + 16777216 * stream[4]
HdrParticles == stream[5] + 256 * stream[6] + 65536 * stream[7] + 16777216 * stream[8]
HeaderFull == Len(stream) >= 8
PayloadLen == Len(stream) - 8
Terminal == {"done", "raised"}
LoopPcs == {"frame_loop", "particle_loop", "check_data", "append_frame"}
AfterSizeCheck == pc \in LoopPcs \/ pc = "seek" \/ (pc = "done" /\ HeaderFull)
InLoopOrReturned == pc \in LoopPcs \/ (pc = "done" /\ HeaderFull)
Record(k) == SubSeq(stream, 8 + 12 * k + 1, 8 + 12 * k + 12)
HasEvent(name) == \E i \in 1..Len(diag) : diag[i].ev = name

\* The step machine and the function DecodeBatch are the same decoder.
DecodeBatchAgrees ==
    (pc = "done") => frames = DecodeBatch(stream)

----------------------------------------------------------------------------
(* Claims about read_gravity_batch (specification Spec).                   *)

\* C1: for an undamaged stream with a full header whose payload length is
\* exactly framesPerFile * numParticles * 12, the call returns framesPerFile
\* frames of numParticles positions each, and position j of frame i is the
\* unpacked 12-byte record number i * numParticles + j of the payload.
ExactBatchDecoded ==
    (~fault /\ pc \in Terminal /\ HeaderFull
       /\ PayloadLen = HdrFrames * HdrParticles * 12)
    => /\ pc = "done"
       /\ Len(frames) = HdrFrames
       /\ \A i \in 1..Len(frames) :
             /\ Len(frames[i]) = HdrParticles
             /\ \A j \in 1..Len(frames[i]) :
                   frames[i][j] = Unpack_fff(Record((i - 1) * HdrParticles + (j - 1)))

ExactBatchDecodedWitness ==
    /\ pc = "done" /\ ~fault /\ HeaderFull
    /\ HdrFrames = 2 /\ HdrParticles = 3 /\ PayloadLen = 72
    /\ Len(frames) = 2 /\ Len(frames[2]) = 3
    /\ frames[2][3] = Unpack_fff(Record(5))
    /\ frames[1][1] # frames[2][1]

\* C2: when the payload length differs from the declared size and
\* framesPerFile > 0, the particle count becomes payload length floor-divided
\* by framesPerFile * 12, and every frame read has exactly that many
\* positions, whether the payload is shorter or longer than declared.
CorrectedCountUsed ==
    (AfterSizeCheck /\ HdrFrames > 0
       /\ PayloadLen # HdrFrames * HdrParticles * 12)
    => /\ num_particles = PayloadLen \div (HdrFrames * 12)
       /\ \A i \in 1..Len(frames) :
             Len(frames[i]) = PayloadLen \div (HdrFrames * 12)
       /\ (pc = "done" => Len(frames) = HdrFrames)

CorrectedCountUsedWitness ==
    /\ pc = "done" /\ HeaderFull /\ HdrFrames = 2 /\ HdrParticles = 1
    /\ PayloadLen = 50
    /\ num_particles = 2
    /\ Len(frames) = 2 /\ Len(frames[1]) = 2 /\ Len(frames[2]) = 2
    /\ HasEvent("calculated")

\* C3: when the header declares framesPerFile = 0 the call returns no frames,
\* whatever numParticles and the payload are; the particle count is not
\* corrected and no ZeroDivisionError is raised.
ZeroFramesEmptyBatch ==
    /\ exc # "ZeroDivisionError"
    /\ (~fault /\ pc \in Terminal /\ HeaderFull /\ HdrFrames = 0)
       => /\ pc = "done"
          /\ frames = <<>>
          /\ num_particles = HdrParticles
          /\ ~HasEvent("calculated")

ZeroFramesEmptyBatchWitness ==
    /\ pc = "done" /\ HeaderFull /\ HdrFrames = 0 /\ HdrParticles = 2
    /\ PayloadLen = 30
    /\ frames = <<>>
    /\ HasEvent("mismatch")

\* C4: an undamaged stream of fewer than 8 bytes makes the call report the
\* header shortfall and return no frames, without raising and without any
\* read or decoding after the header read.
ShortHeaderEmptyBatch ==
    (~fault /\ Len(stream) < 8)
    => /\ pc \in {"start", "read_header", "done"}
       /\ exc = "none"
       /\ pc = "done"
          => /\ frames = <<>>
             /\ diag = <<Ev("reading", 0, 0), Ev("header_error", Len(stream), 0)>>
             /\ header_data = stream
             /\ pos = Len(stream)
             /\ remaining_data = <<>> /\ data = <<>> /\ frame_positions = <<>>

ShortHeaderEmptyBatchWitness ==
    /\ pc = "done" /\ ~fault /\ Len(stream) = 7
    /\ frames = <<>>
    /\ HasEvent("header_error")

\* C5: on an undamaged stream the call never raises and runs to its return,
\* whatever the header declares and the payload holds; with a full header
\* the returned batch has exactly framesPerFile frames.
NeverRaisesAllFrames ==
    /\ ~fault => (pc # "raised" /\ exc = "none")
    /\ (~fault /\ pc # "done") => ENABLED Next
    /\ (pc = "done" /\ HeaderFull) => Len(frames) = HdrFrames

NeverRaisesAllFramesWitness ==
    /\ pc = "done" /\ ~fault /\ HeaderFull
    /\ HdrFrames = 3 /\ HdrParticles = 258 /\ PayloadLen = 40
    /\ Len(frames) = 3

\* C7: the read position never passes the end of the stream, so the payload
\* bytes the position-reading loop has consumed never exceed the payload
\* bytes there are; a position is decoded only from a full 12-byte read, and
\* a read of fewer than 12 bytes ends the frame with a report naming the
\* frame and the particle.
ReadsWithinStream ==
    /\ pos <= Len(stream)
    /\ InLoopOrReturned
       => /\ pos >= 8
          /\ Len(remaining_data) = PayloadLen
          /\ pos - 8 <= Len(remaining_data)
    /\ (pc = "particle_loop" /\ particle_idx > 0)
       => /\ Len(data) = 12
          /\ Len(frame_positions) = particle_idx
          /\ frame_positions[particle_idx] = Unpack_fff(data)
    /\ (pc = "append_frame" /\ particle_idx < num_particles)
       => /\ Len(data) < 12
          /\ Len(frame_positions) = particle_idx
          /\ diag[Len(diag)] = Ev("incomplete", frame_idx, particle_idx)

ReadsWithinStreamWitness ==
    /\ pc = "check_data" /\ ~fault
    /\ PayloadLen = 36
    /\ pos = Len(stream)
    /\ Len(data) = 12
    /\ frame_idx = 2

\* C8: the handle is open only while the call runs and is closed when the
\* call has ended, on the early return after a short header, on the normal
\* return and when a read raised.
HandleClosedOnExit ==
    /\ pc \in Terminal => handle = "closed"
    /\ pc = "start" => handle = "none"
    /\ pc \notin Terminal \cup {"start"} => handle = "open"

HandleClosedOnExitWitness ==
    /\ pc = "raised" /\ exc = "EOFError" /\ fault
    /\ Len(header_data) = 8
    /\ handle = "closed"

\* C10: once the frame loop is reached, framesPerFile * n * 12 is at most the
\* payload length for the particle count n in effect, no read of a position
\* comes back short, every frame has exactly n positions and no
\* incomplete-data line is printed.
NoShortRead ==
    InLoopOrReturned
    => /\ frames_per_file * num_particles * 12 <= Len(remaining_data)
       /\ pc = "check_data" => Len(data) = 12
       /\ \A i \in 1..Len(frames) : Len(frames[i]) = num_particles
       /\ ~HasEvent("incomplete")

NoShortReadWitness ==
    /\ pc = "done" /\ HeaderFull /\ HdrFrames = 3 /\ HdrParticles = 3
    /\ PayloadLen = 74
    /\ num_particles = 2
    /\ Len(frames) = 3 /\ Len(frames[3]) = 2
    /\ pos = 80

----------------------------------------------------------------------------
(* Claims about analyze_data_range (specification SpecAnalyze).            *)

AllPositions ==
    UNION { UNION { { DecodeBatch(files[b])[i][j] :
                          j \in 1..Len(DecodeBatch(files[b])[i]) } :
                      i \in 1..Len(DecodeBatch(files[b])) } :
              b \in { c \in 0..11 : files[c] # Missing } }
AxisValues(a) == { FloatValue(p[a]) : p \in AllPositions }
Lowest(S) == IF S = {} THEN PosInf ELSE CHOOSE m \in S : \A x \in S : ~FLess(x, m)
Highest(S) == IF S = {} THEN NegInf ELSE CHOOSE m \in S : \A x \in S : ~FLess(m, x)
AxisRange(a) == FSub(Highest(AxisValues(a)), Lowest(AxisValues(a)))
LargestRange == Highest({AxisRange(1), AxisRange(2), AxisRange(3)})

\* Whenever analyze_data_range returns, what it returns is the extremes of
\* all positions of the existing batch files and 10 over their largest range.
AnalyzeResultWhenReturned ==
    apc = "done"
    => /\ min_coords = [a \in 1..3 |-> Lowest(AxisValues(a))]
       /\ max_coords = [a \in 1..3 |-> Highest(AxisValues(a))]
       /\ suggested_scale = FDiv(10, LargestRange)

\* C9: for every set of batch files, analyze_data_range returns the per-axis
\* extremes of all positions of the existing files 0..11 and a suggested
\* scale of 10 divided by the largest per-axis range.
AnalyzeReturnsScale ==
    apc \in Terminal
    => /\ apc = "done"
       /\ min_coords = [a \in 1..3 |-> Lowest(AxisValues(a))]
       /\ max_coords = [a \in 1..3 |-> Highest(AxisValues(a))]
       /\ suggested_scale = FDiv(10, LargestRange)

====
